---- MODULE Spec2Model ----
(***************************************************************************)
(* Innovation Agent: the three staged LLM calls (market research,          *)
(* execution plan = web research + planning call, strategic analysis) and  *)
(* the dashboard handlers of app.py that chain them through the session    *)
(* state.  A text is a sequence of one-character strings; a Python dict is *)
(* a record and `"error" in d` is "error" \in DOMAIN d; Python None is the *)
(* record None.                                                            *)
(***************************************************************************)
EXTENDS Integers, Sequences, FiniteSets, TLC

VARIABLES
    user_idea,           \* st.session_state.user_idea
    market_research,     \* st.session_state.market_research
    execution_plan,      \* st.session_state.execution_plan
    strategic_analysis,  \* st.session_state.strategic_analysis
    current_step,        \* st.session_state.current_step
    processing,          \* st.session_state.processing
    chat_history,        \* st.session_state.chat_history
    pc,                  \* position of the script run / stage coroutine
    stage,               \* the stage function whose backend call is next
    attempt,             \* loop variable of `for attempt in range(max_retries)`
    idea_arg,            \* the idea passed to the running stage function
    market_arg,          \* the market_report passed to the running stage function
    plan_arg,            \* the execution_plan passed to analyze_strategy
    prompt,              \* the prompt local built before the first attempt
    web_research,        \* local of run_execution_plan
    result,              \* value returned by the stage function to the handler
    raised,              \* an exception left the stage function
    log,                 \* backend calls and backoff sleeps of this handler run
    typed,               \* the ideas the user of this session types (environment)
    runs                 \* the stage calls of concurrent sessions, by session

session == <<user_idea, market_research, execution_plan, strategic_analysis,
             current_step, processing, chat_history>>
frame   == <<pc, stage, attempt, idea_arg, market_arg, plan_arg, prompt,
             web_research, result, raised>>
env     == <<typed, runs>>
vars    == <<session, frame, log, env>>

----------------------------------------------------------------------------
(* Texts *)

None == [none |-> TRUE]

RECURSIVE Rep(_, _)
Rep(c, n) == IF n = 0 THEN <<>> ELSE <<c>> \o Rep(c, n - 1)

Min(a, b) == IF a < b THEN a ELSE b

\* s[:n] taken one character too far
SliceInclusive(s, n) == SubSeq(s, 1, Min(n + 1, Len(s)))

\* Python s[:n]
Slice(s, n) == SubSeq(s, 1, Min(n, Len(s)))

\* the shortest idea length the dashboard does not accept (len(user_idea) > 20)
MinIdeaLen == 20

EmptyText == <<>>
IdeaA     == Rep("a", MinIdeaLen + 1)
IdeaBlank == Rep(" ", MinIdeaLen + 1)
\* a session's user clears the text area or types one idea that the dashboard
\* accepts: an ordinary one or a whitespace-only one
Users     == {{EmptyText, IdeaA}, {EmptyText, IdeaBlank}}

\* texts the backend can answer with: the empty text and a report
ReportLen == 3
Report    == Rep("r", ReportLen)
Texts     == {EmptyText, Report}

NotAvailable == <<"N","o","t"," ","a","v","a","i","l","a","b","l","e",".">>
Ellipsis     == <<".", ".", ".">>

\* Python truthiness of a str
Truthy(s) == Len(s) > 0

\* str.strip(): leading and trailing whitespace removed
RECURSIVE LStrip(_)
LStrip(s) == IF Len(s) > 0 /\ s[1] = " " THEN LStrip(Tail(s)) ELSE s
RECURSIVE RStrip(_)
RStrip(s) ==
    IF Len(s) > 0 /\ s[Len(s)] = " " THEN RStrip(SubSeq(s, 1, Len(s) - 1)) ELSE s
Strip(s) == RStrip(LStrip(s))

----------------------------------------------------------------------------
(* The backend: what one chat.completions.create call can do *)

RateLimitError == "RateLimitError"
\* network failure / timeout (transient) and request / auth / policy errors (fatal)
TransientErrors == {"APITimeoutError"}
FatalErrors     == {"AuthenticationError"}
Errors          == {RateLimitError} \cup TransientErrors \cup FatalErrors

Completion(t) == [content |-> t, total_tokens |-> Len(t)]
Outcomes == [kind : {"ok"}, content : Texts, exc : {"-"}]
            \cup [kind : {"raise"}, content : {EmptyText}, exc : Errors]

\* a loop written with one attempt too many
max_retries_plus_one == 3 + 1
\* max_retries = 3 and retry_delay = 61 in each of the three retry-wrapped
\* stage functions
max_retries == 3
retry_delay == 61

----------------------------------------------------------------------------
(* Prompt builders *)

\* MarketResearchAnalysis.py: the idea is interpolated as it is
get_universal_market_research_prompt(idea) ==
    [kind |-> "market_research", user_idea |-> idea]

\* ExecutionPlanGenerator.py: {market_report[:1500]}...
WebMarketBudget == 1500
get_web_research_prompt(idea, market_report) ==
    [kind |-> "web_research", user_idea |-> idea,
     market_context |-> Slice(market_report, WebMarketBudget) \o Ellipsis]

\* ExecutionPlanGenerator.py: {market_report[:1500]} and {web_research_data[:2000]}
PlanMarketBudget == 1500
PlanWebBudget    == 2000
get_execution_planning_prompt(idea, market_report, web_research_data) ==
    [kind |-> "execution_plan", user_idea |-> idea,
     market_context |-> Slice(market_report, PlanMarketBudget),
     web_findings |-> Slice(web_research_data, PlanWebBudget)]

\* StrategicAnalyzer.py: {market_report[:2500]} and {execution_plan[:2500]}
StrategyBudget == 2500
get_strategic_analysis_prompt(idea, market_report, plan) ==
    [kind |-> "strategic_analysis", user_idea |-> idea,
     market_context |-> Slice(market_report, StrategyBudget),
     plan_context |-> Slice(plan, StrategyBudget)]

\* a user message that is rebuilt for each attempt
UserMessagePerAttempt(p, att) ==
    [role |-> "user", content |-> [kind |-> p.kind, retry |-> att]]

\* the user message of one attempt carries the prompt local unchanged
UserMessage(p, att) == [role |-> "user", content |-> p]

Messages(st, p, att) == <<[role |-> "system", content |-> st], UserMessage(p, att)>>

CallEvent(st, p, att, o) ==
    [ev |-> "call", stage |-> st, attempt |-> att,
     messages |-> Messages(st, p, att), outcome |-> o.kind, exc |-> o.exc,
     content |-> o.content, secs |-> 0]
SleepEvent(st, att) ==
    [ev |-> "sleep", stage |-> st, attempt |-> att,
     messages |-> <<>>, outcome |-> "-", exc |-> "-", content |-> EmptyText,
     secs |-> retry_delay]

\* dict.get(key, default)
Get(d, key, default) == IF key \in DOMAIN d THEN d[key] ELSE default

\* `x and 'error' not in x` for a stored result
Ok(d) == d # None /\ "error" \notin DOMAIN d

----------------------------------------------------------------------------
(* The except clauses of the stage functions *)

\* every error handled by the retrying clause
ExceptClauseRetryAll(e) == IF e \in Errors THEN "RateLimitError" ELSE "uncaught"

\* timeouts handled by the retrying clause as well
ExceptClauseRetryTransient(e) ==
    IF e \in {RateLimitError} \cup TransientErrors THEN "RateLimitError"
    ELSE IF e \in Errors THEN "Exception"
    ELSE "uncaught"

\* the catch-all clause left out
ExceptClauseNoGeneric(e) ==
    IF e = RateLimitError THEN "RateLimitError" ELSE "uncaught"

\* try / except RateLimitError / except Exception of the retry-wrapped calls
ExceptClause(e) ==
    IF e = RateLimitError THEN "RateLimitError"
    ELSE IF e \in Errors THEN "Exception"
    ELSE "uncaught"

\* a clause that does not catch rate limiting
PlanExceptClauseNarrow(e) ==
    IF e \in Errors \ {RateLimitError} THEN "Exception" ELSE "uncaught"

\* try / except Exception of the planning call
PlanExceptClause(e) == IF e \in Errors THEN "Exception" ELSE "uncaught"

\* the off-by-one test `if attempt < max_retries`
AttemptsRemainOffByOne(att) == att < max_retries

\* a rate limit is followed by a backoff on every attempt, the last included
AttemptsRemainAlways(att) == att >= 0

\* `if attempt < max_retries - 1` in the except RateLimitError clause
AttemptsRemain(att) == att < max_retries - 1

\* `for attempt in range(max_retries)`: is there a next iteration
LoopContinues(att) == att + 1 < max_retries

----------------------------------------------------------------------------
(* Result dicts *)

\* MarketSuccess, but an empty response text is turned into a failure
MarketSuccessNonEmpty(idea, c) ==
    IF Len(c.content) = 0
      THEN [error |-> <<"Empty response from the model">>]
      ELSE [user_idea |-> idea, analysis_timestamp |-> "now",
            model_used |-> "groq/compound",
            market_research_analysis |-> c.content, web_search_data |-> <<>>,
            analysis_metadata |-> [total_tokens |-> c.total_tokens,
                                   web_searches_performed |-> 0]]

\* the success dict of analyze_market_opportunity
MarketSuccess(idea, c) ==
    [user_idea |-> idea, analysis_timestamp |-> "now", model_used |-> "groq/compound",
     market_research_analysis |-> c.content, web_search_data |-> <<>>,
     analysis_metadata |-> [total_tokens |-> c.total_tokens,
                            web_searches_performed |-> 0]]
MarketRateLimited(e) ==
    [error |-> <<"Analysis failed after 3 attempts due to persistent rate limiting.">>,
     details |-> e]
MarketFailed(e) ==
    [error |-> <<"An unexpected error occurred during analysis", e>>]
MarketAfterLoop == [error |-> <<"Analysis failed after all retries.">>]

\* WebSuccess without the time of completion
WebSuccessNoTimestamp(c) == [research_data |-> c.content]

\* the success dict of research_execution_strategies
WebSuccess(c) == [research_data |-> c.content, timestamp |-> "now"]
WebRateLimited(e) ==
    [error |-> <<"Web research failed after 3 attempts due to persistent rate limiting.">>,
     details |-> e, research_data |-> NotAvailable]
\* an error dict without the research_data placeholder
WebFailedNoData(e) ==
    [error |-> <<"An unexpected error occurred during web research", e>>]
WebFailed(e) ==
    [error |-> <<"An unexpected error occurred during web research", e>>,
     research_data |-> NotAvailable]
WebAfterLoop ==
    [error |-> <<"Web research failed after all retries.">>,
     research_data |-> NotAvailable]

PlanSuccess(idea, market_report, web, c) ==
    [user_idea |-> idea, market_report |-> market_report,
     web_research_summary |-> Get(web, "research_data", EmptyText),
     execution_plan |-> c.content, generation_timestamp |-> "now"]
PlanFailed(e) == [error |-> <<"Execution planning failed", e>>]

SummaryLen == 500
Summary(s) == IF Len(s) > SummaryLen THEN Slice(s, SummaryLen) \o Ellipsis ELSE s

StrategySuccess(idea, market_report, plan, c) ==
    [user_idea |-> idea, market_report_summary |-> Summary(market_report),
     execution_plan_summary |-> Summary(plan),
     strategic_analysis |-> c.content, analysis_timestamp |-> "now",
     model_used |-> "openai/gpt-oss-120b",
     analysis_metadata |-> [total_tokens |-> c.total_tokens]]
StrategyRateLimited(idea, e) ==
    [error |-> <<"Strategic analysis failed after multiple retries", e>>,
     user_idea |-> idea, timestamp |-> "now"]
StrategyFailed(idea, e) ==
    [error |-> <<"Strategic analysis failed", e>>,
     user_idea |-> idea, timestamp |-> "now"]

----------------------------------------------------------------------------
Init ==
    /\ user_idea = EmptyText
    /\ market_research = None
    /\ execution_plan = None
    /\ strategic_analysis = None
    /\ current_step = 1
    /\ processing = FALSE
    /\ chat_history = [items |-> <<>>]
    /\ pc = "idle"
    /\ stage = "none"
    /\ attempt = 0
    /\ idea_arg = EmptyText
    /\ market_arg = EmptyText
    /\ plan_arg = EmptyText
    /\ prompt = None
    /\ web_research = None
    /\ result = None
    /\ raised = FALSE
    /\ log = <<>>
    /\ typed \in Users
    /\ runs = <<>>

----------------------------------------------------------------------------
(* The dashboard script (app.py main) *)

IdeaAccepted(i) == Truthy(i) /\ Len(i) > MinIdeaLen

\* a script run without a button press: the nested `if`s that end in
\* st.session_state.current_step = 5
RenderStep(i, mr, ep, sa, step) ==
    IF IdeaAccepted(i) /\ Ok(mr) /\ Ok(ep) /\ Ok(sa) THEN 5 ELSE step

ClearFrame ==
    /\ stage' = "none"
    /\ attempt' = 0
    /\ idea_arg' = EmptyText
    /\ market_arg' = EmptyText
    /\ plan_arg' = EmptyText
    /\ prompt' = None
    /\ web_research' = None
    /\ result' = None
    /\ raised' = FALSE
    /\ log' = <<>>

\* the text area: the user edits the idea, the script reruns
SetIdea ==
    /\ pc = "idle"
    /\ \E i \in typed :
        /\ user_idea' = i
        /\ current_step' = RenderStep(i, market_research, execution_plan,
                                      strategic_analysis, current_step)
    /\ UNCHANGED <<market_research, execution_plan, strategic_analysis,
                   processing, chat_history, frame, log, env>>

\* Reset All with 'execution_plan' missing from its list of keys
ResetAllPartial ==
    /\ pc = "idle"
    /\ user_idea' = EmptyText
    /\ current_step' = 1
    /\ market_research' = None
    /\ strategic_analysis' = None
    /\ chat_history' = None
    /\ UNCHANGED <<execution_plan, processing, frame, log, env>>

\* the Reset All button
ResetAll ==
    /\ pc = "idle"
    /\ user_idea' = EmptyText
    /\ current_step' = 1
    /\ market_research' = None
    /\ execution_plan' = None
    /\ strategic_analysis' = None
    /\ chat_history' = None
    /\ UNCHANGED <<processing, frame, log, env>>

\* the Generate Market Research button, up to the first backend call of
\* analyze_market_opportunity
GenMarket ==
    /\ pc = "idle"
    /\ IdeaAccepted(user_idea)
    /\ ~processing
    /\ processing' = TRUE
    /\ stage' = "market_research"
    /\ idea_arg' = user_idea
    /\ prompt' = get_universal_market_research_prompt(user_idea)
    /\ attempt' = 0
    /\ pc' = "call"
    /\ log' = <<>>
    /\ UNCHANGED <<user_idea, market_research, execution_plan, strategic_analysis,
                   current_step, chat_history, market_arg, plan_arg, web_research,
                   result, raised, env>>

\* the Generate Execution Plan button, up to the first backend call of
\* research_execution_strategies
GenExec ==
    /\ pc = "idle"
    /\ IdeaAccepted(user_idea)
    /\ Ok(market_research)
    /\ ~processing
    /\ processing' = TRUE
    /\ stage' = "web_research"
    /\ idea_arg' = user_idea
    /\ market_arg' = Get(market_research, "market_research_analysis", EmptyText)
    /\ prompt' = get_web_research_prompt(user_idea,
                     Get(market_research, "market_research_analysis", EmptyText))
    /\ attempt' = 0
    /\ pc' = "call"
    /\ log' = <<>>
    /\ UNCHANGED <<user_idea, market_research, execution_plan, strategic_analysis,
                   current_step, chat_history, plan_arg, web_research, result, raised,
                   env>>

\* analyze_strategy after its arguments are settled: the prompt is built and
\* the retry loop entered
StrategyEnter(idea, mr, ep) ==
    /\ prompt' = get_strategic_analysis_prompt(idea, mr, ep)
    /\ attempt' = 0
    /\ pc' = "call"

\* the Generate Strategic Analysis button, up to the first backend call of
\* analyze_strategy or to its first input() when a report argument is falsy
GenStrat ==
    /\ pc = "idle"
    /\ IdeaAccepted(user_idea)
    /\ Ok(market_research)
    /\ Ok(execution_plan)
    /\ ~processing
    /\ processing' = TRUE
    /\ stage' = "strategic_analysis"
    /\ LET mr == Get(market_research, "market_research_analysis", EmptyText)
           ep == Get(execution_plan, "execution_plan", EmptyText)
       IN  /\ idea_arg' = user_idea
           /\ market_arg' = mr
           /\ plan_arg' = ep
           /\ IF ~Truthy(mr)
                THEN pc' = "input_market" /\ UNCHANGED <<prompt, attempt>>
                ELSE IF ~Truthy(ep)
                  THEN pc' = "input_plan" /\ UNCHANGED <<prompt, attempt>>
                  ELSE StrategyEnter(user_idea, mr, ep)
    /\ log' = <<>>
    /\ UNCHANGED <<user_idea, market_research, execution_plan, strategic_analysis,
                   current_step, chat_history, web_research, result, raised, env>>

\* what the server console gives to the input() calls of analyze_strategy:
\* end of file, or a report (pasted, or read from the file that was named)
ConsoleOutcomes ==
    [kind : {"EOFError"}, text : {EmptyText}]
    \cup [kind : {"text"}, text : Texts]

\* `if not market_report:` of analyze_strategy: input() raises outside any
\* try, or the console supplies the report
ConsoleInputMarket ==
    /\ pc = "input_market"
    /\ \E c \in ConsoleOutcomes :
        IF c.kind = "EOFError"
          THEN /\ raised' = TRUE
               /\ pc' = "returned"
               /\ UNCHANGED <<market_arg, prompt, attempt>>
          ELSE /\ market_arg' = c.text
               /\ raised' = FALSE
               /\ IF ~Truthy(plan_arg)
                    THEN pc' = "input_plan" /\ UNCHANGED <<prompt, attempt>>
                    ELSE StrategyEnter(idea_arg, c.text, plan_arg)
    /\ UNCHANGED <<session, stage, idea_arg, plan_arg, web_research, result, log,
                   env>>

\* `if not execution_plan:` of analyze_strategy
ConsoleInputPlan ==
    /\ pc = "input_plan"
    /\ \E c \in ConsoleOutcomes :
        IF c.kind = "EOFError"
          THEN /\ raised' = TRUE
               /\ pc' = "returned"
               /\ UNCHANGED <<plan_arg, prompt, attempt>>
          ELSE /\ plan_arg' = c.text
               /\ raised' = FALSE
               /\ StrategyEnter(idea_arg, market_arg, c.text)
    /\ UNCHANGED <<session, stage, idea_arg, market_arg, web_research, result, log,
                   env>>

----------------------------------------------------------------------------
(* The stage functions, one backend call (one loop iteration) per step *)

\* one iteration of the retry loop of analyze_market_opportunity
analyze_market_opportunity ==
    /\ pc = "call"
    /\ stage = "market_research"
    /\ \E o \in Outcomes :
        /\ log' = Append(log, CallEvent(stage, prompt, attempt, o))
        /\ IF o.kind = "ok"
             THEN /\ result' = MarketSuccess(idea_arg, Completion(o.content))
                  /\ pc' = "returned"
                  /\ raised' = FALSE
             ELSE IF ExceptClause(o.exc) = "RateLimitError"
               THEN IF AttemptsRemain(attempt)
                      THEN /\ pc' = "sleep"
                           /\ UNCHANGED <<result, raised>>
                      ELSE /\ result' = MarketRateLimited(o.exc)
                           /\ pc' = "returned"
                           /\ raised' = FALSE
               ELSE IF ExceptClause(o.exc) = "Exception"
                 THEN /\ result' = MarketFailed(o.exc)
                      /\ pc' = "returned"
                      /\ raised' = FALSE
                 ELSE /\ raised' = TRUE
                      /\ pc' = "returned"
                      /\ UNCHANGED result
    /\ UNCHANGED <<session, stage, attempt, idea_arg, market_arg, plan_arg, prompt,
                   web_research, env>>

\* one iteration of the retry loop of research_execution_strategies
research_execution_strategies ==
    /\ pc = "call"
    /\ stage = "web_research"
    /\ \E o \in Outcomes :
        /\ log' = Append(log, CallEvent(stage, prompt, attempt, o))
        /\ IF o.kind = "ok"
             THEN /\ web_research' = WebSuccess(Completion(o.content))
                  /\ pc' = "returned"
                  /\ raised' = FALSE
             ELSE IF ExceptClause(o.exc) = "RateLimitError"
               THEN IF AttemptsRemain(attempt)
                      THEN /\ pc' = "sleep"
                           /\ UNCHANGED <<web_research, raised>>
                      ELSE /\ web_research' = WebRateLimited(o.exc)
                           /\ pc' = "returned"
                           /\ raised' = FALSE
               ELSE IF ExceptClause(o.exc) = "Exception"
                 THEN /\ web_research' = WebFailed(o.exc)
                      /\ pc' = "returned"
                      /\ raised' = FALSE
                 ELSE /\ raised' = TRUE
                      /\ pc' = "returned"
                      /\ UNCHANGED web_research
    /\ UNCHANGED <<session, stage, attempt, idea_arg, market_arg, plan_arg, prompt,
                   result, env>>

\* one iteration of the retry loop of analyze_strategy
analyze_strategy ==
    /\ pc = "call"
    /\ stage = "strategic_analysis"
    /\ \E o \in Outcomes :
        /\ log' = Append(log, CallEvent(stage, prompt, attempt, o))
        /\ IF o.kind = "ok"
             THEN /\ result' = StrategySuccess(idea_arg, market_arg, plan_arg,
                                               Completion(o.content))
                  /\ pc' = "returned"
                  /\ raised' = FALSE
             ELSE IF ExceptClause(o.exc) = "RateLimitError"
               THEN IF AttemptsRemain(attempt)
                      THEN /\ pc' = "sleep"
                           /\ UNCHANGED <<result, raised>>
                      ELSE /\ result' = StrategyRateLimited(idea_arg, o.exc)
                           /\ pc' = "returned"
                           /\ raised' = FALSE
               ELSE IF ExceptClause(o.exc) = "Exception"
                 THEN /\ result' = StrategyFailed(idea_arg, o.exc)
                      /\ pc' = "returned"
                      /\ raised' = FALSE
                 ELSE /\ raised' = TRUE
                      /\ pc' = "returned"
                      /\ UNCHANGED result
    /\ UNCHANGED <<session, stage, attempt, idea_arg, market_arg, plan_arg, prompt,
                   web_research, env>>

\* the value a stage function returns when its loop ends without a return
AfterLoop(st) ==
    IF st = "market_research" THEN MarketAfterLoop
    ELSE IF st = "web_research" THEN WebAfterLoop
    ELSE None

\* a backoff after which the same attempt is made again
BackoffSleepSameAttempt ==
    /\ pc = "sleep"
    /\ log' = Append(log, SleepEvent(stage, attempt))
    /\ attempt' = attempt
    /\ pc' = "call"
    /\ UNCHANGED <<result, web_research>>
    /\ UNCHANGED <<session, stage, idea_arg, market_arg, plan_arg, prompt, raised,
                   env>>

\* await asyncio.sleep(retry_delay), then the next iteration of the loop
BackoffSleep ==
    /\ pc = "sleep"
    /\ log' = Append(log, SleepEvent(stage, attempt))
    /\ IF LoopContinues(attempt)
         THEN /\ attempt' = attempt + 1
              /\ pc' = "call"
              /\ UNCHANGED <<result, web_research>>
         ELSE /\ pc' = "returned"
              /\ attempt' = attempt
              /\ IF stage = "web_research"
                   THEN web_research' = AfterLoop(stage) /\ UNCHANGED result
                   ELSE result' = AfterLoop(stage) /\ UNCHANGED web_research
    /\ UNCHANGED <<session, stage, idea_arg, market_arg, plan_arg, prompt, raised,
                   env>>

\* a run_execution_plan that gives up when the web research failed
run_execution_plan_prompt_abort ==
    /\ pc = "returned"
    /\ stage = "web_research"
    /\ ~raised
    /\ stage' = "execution_plan"
    /\ attempt' = 0
    /\ IF "error" \in DOMAIN web_research
         THEN /\ result' = [error |-> web_research.error]
              /\ pc' = "returned"
              /\ UNCHANGED prompt
         ELSE /\ prompt' = get_execution_planning_prompt(idea_arg, market_arg,
                               Get(web_research, "research_data", EmptyText))
              /\ pc' = "call"
              /\ UNCHANGED result
    /\ UNCHANGED <<session, idea_arg, market_arg, plan_arg, web_research,
                   raised, log, env>>

\* run_execution_plan after research_execution_strategies has returned: the
\* planning prompt is built from whatever research_data the result carries
run_execution_plan_prompt ==
    /\ pc = "returned"
    /\ stage = "web_research"
    /\ ~raised
    /\ stage' = "execution_plan"
    /\ prompt' = get_execution_planning_prompt(idea_arg, market_arg,
                     Get(web_research, "research_data", EmptyText))
    /\ attempt' = 0
    /\ pc' = "call"
    /\ UNCHANGED <<session, idea_arg, market_arg, plan_arg, web_research, result,
                   raised, log, env>>

\* the planning call of run_execution_plan: one try, one call
run_execution_plan_call ==
    /\ pc = "call"
    /\ stage = "execution_plan"
    /\ \E o \in Outcomes :
        /\ log' = Append(log, CallEvent(stage, prompt, attempt, o))
        /\ IF o.kind = "ok"
             THEN /\ result' = PlanSuccess(idea_arg, market_arg, web_research,
                                           Completion(o.content))
                  /\ raised' = FALSE
             ELSE IF PlanExceptClause(o.exc) = "Exception"
               THEN /\ result' = PlanFailed(o.exc)
                    /\ raised' = FALSE
               ELSE /\ raised' = TRUE
                    /\ UNCHANGED result
        /\ pc' = "returned"
    /\ UNCHANGED <<session, stage, attempt, idea_arg, market_arg, plan_arg, prompt,
                   web_research, env>>

----------------------------------------------------------------------------
(* The button handlers after the stage function has returned *)

\* StoreResult, but a new market research also drops the reports made from
\* the old one
StoreResultInvalidating(st, r) ==
    /\ market_research' = IF st = "market_research" THEN r ELSE market_research
    /\ execution_plan' = IF st = "execution_plan" THEN r
                         ELSE IF st = "market_research" THEN None
                         ELSE execution_plan
    /\ strategic_analysis' = IF st = "strategic_analysis" THEN r
                             ELSE IF st = "market_research" THEN None
                             ELSE strategic_analysis

\* the session_state entry a handler stores its result in
StoreResult(st, r) ==
    /\ market_research' = IF st = "market_research" THEN r ELSE market_research
    /\ execution_plan' = IF st = "execution_plan" THEN r ELSE execution_plan
    /\ strategic_analysis' = IF st = "strategic_analysis" THEN r
                             ELSE strategic_analysis

StepOf(st) ==
    IF st = "market_research" THEN 2 ELSE IF st = "execution_plan" THEN 3 ELSE 4

\* max() that returns its first argument: the step of the stage just run
MaxOverwrite(a, b) == a

\* max(2, st.session_state.current_step)
Max(a, b) == IF a > b THEN a ELSE b

\* `if 'error' not in result:` ... `st.session_state.processing = False`;
\* the stage function's frame is gone, the handler still holds result
HandlerFinish ==
    /\ pc = "returned"
    /\ stage # "web_research"
    /\ UNCHANGED env
    /\ IF raised
         THEN \* the exception leaves asyncio.run and ends the script run
              /\ pc' = "idle"
              /\ ClearFrame
              /\ UNCHANGED session
         ELSE /\ IF "error" \notin DOMAIN result
                   THEN /\ StoreResult(stage, result)
                        /\ current_step' = Max(StepOf(stage), current_step)
                   ELSE UNCHANGED <<market_research, execution_plan,
                                    strategic_analysis, current_step>>
              /\ processing' = FALSE
              /\ pc' = "rerun"
              /\ attempt' = 0
              /\ idea_arg' = EmptyText
              /\ market_arg' = EmptyText
              /\ plan_arg' = EmptyText
              /\ prompt' = None
              /\ web_research' = None
              /\ log' = <<>>
              /\ UNCHANGED <<user_idea, chat_history, stage, result, raised>>

\* st.rerun(): the script runs again from the top with no button pressed
Rerun ==
    /\ pc = "rerun"
    /\ pc' = "idle"
    /\ ClearFrame
    /\ current_step' = RenderStep(user_idea, market_research, execution_plan,
                                  strategic_analysis, current_step)
    /\ UNCHANGED <<user_idea, market_research, execution_plan, strategic_analysis,
                   processing, chat_history, env>>

----------------------------------------------------------------------------
(* The AI Assistant tab (chatbot_interface) *)

\* the text that follows each report's closing brace in the context f-string:
\* `{...get('market_research_analysis', '')}[:3000]`
LiteralSlice == <<"[", ":", "3", "0", "0", "0", "]">>

\* one section of the context: the whole report, then the literal text
ContextSection(d, key) ==
    IF d # None THEN Get(d, key, EmptyText) \o LiteralSlice ELSE EmptyText

\* `context = f"USER IDEA: ..."` and the three `if st.session_state.<report>:`
chat_context(idea, mr, ep, sa) ==
    [user_idea |-> idea,
     market_research |-> ContextSection(mr, "market_research_analysis"),
     execution_plan |-> ContextSection(ep, "execution_plan"),
     strategic_analysis |-> ContextSection(sa, "strategic_analysis")]

\* the question typed in the chat box
Question == <<"q", "?">>

\* how many questions one session asks
MaxChat == 1

\* the body of the try block for one backend outcome: the answer is appended
\* to chat_history; an exception of the call, or of None.append, appends
\* nothing
ChatAnswer(o) ==
    IF o.kind = "ok" /\ chat_history # None
      THEN chat_history' =
             [items |-> Append(chat_history.items,
                               [question |-> Question,
                                answer |-> Strip(o.content),
                                timestamp |-> "now"])]
      ELSE UNCHANGED chat_history

\* the Send button with a question typed: one backend call inside
\* try/except Exception; the answer is appended to chat_history, and an
\* exception (of the call, or of None.append after Reset All) is only shown
SendChat ==
    /\ pc = "idle"
    /\ market_research # None
    /\ Truthy(Question)
    /\ chat_history # None => Len(chat_history.items) < MaxChat
    /\ \E o \in Outcomes : ChatAnswer(o)
    /\ current_step' = RenderStep(user_idea, market_research, execution_plan,
                                  strategic_analysis, current_step)
    /\ UNCHANGED <<user_idea, market_research, execution_plan, strategic_analysis,
                   processing, frame, log, env>>

Next ==
    \/ SetIdea
    \/ SendChat
    \/ ResetAll
    \/ GenMarket
    \/ GenExec
    \/ GenStrat
    \/ ConsoleInputMarket
    \/ ConsoleInputPlan
    \/ analyze_market_opportunity
    \/ research_execution_strategies
    \/ analyze_strategy
    \/ BackoffSleep
    \/ run_execution_plan_prompt
    \/ run_execution_plan_call
    \/ HandlerFinish
    \/ Rerun

Spec == Init /\ [][Next]_vars

\* a step of a stage call that is under way: the backend call returns or
\* raises, the backoff sleep completes
StageCallStep ==
    \/ analyze_market_opportunity
    \/ research_execution_strategies
    \/ analyze_strategy
    \/ BackoffSleep

\* the dashboard with stage calls that go on: no backend call and no sleep
\* lasts for ever
FairSpec == Spec /\ WF_vars(StageCallStep)
----------------------------------------------------------------------------
(* The prompt builders on their own, applied to reports whose lengths lie
   around the character budgets *)

ChatBudget == 3000

\* how far around each budget the lengths of the reports range
Slack == 1

Budgets == {WebMarketBudget, PlanMarketBudget, PlanWebBudget, StrategyBudget,
            ChatBudget}

ReportLengths ==
    {0} \cup {b + d : b \in Budgets, d \in (0 - Slack)..Slack}

\* a report of n characters that differ from place to place
TextOfLen(n) == [i \in 1..n |-> IF i % 3 = 0 THEN "x" ELSE IF i % 3 = 1 THEN "y" ELSE "z"]

LongTexts == {TextOfLen(n) : n \in ReportLengths}

\* build_prompt of the command-line chatbot: the three reports as loaded
build_prompt(mr, ep, sa, question) ==
    [kind |-> "cli_chat", market_research |-> mr, execution_plan |-> ep,
     strategic_analysis |-> sa, question |-> question]

InitBuilders ==
    /\ user_idea = IdeaA
    /\ market_research = None
    /\ execution_plan = None
    /\ strategic_analysis = None
    /\ current_step = 1
    /\ processing = FALSE
    /\ chat_history = [items |-> <<>>]
    /\ pc = "builder"
    /\ stage = "none"
    /\ attempt = 0
    /\ idea_arg = IdeaA
    /\ market_arg \in LongTexts
    /\ plan_arg \in LongTexts
    /\ prompt = None
    /\ web_research = None
    /\ result = None
    /\ raised = FALSE
    /\ log = <<>>
    /\ typed = {EmptyText, IdeaA}
    /\ runs = <<>>

\* a builder is applied to the two reports: only the prompt changes
Built(st, p) ==
    /\ stage' = st
    /\ prompt' = p
    /\ UNCHANGED <<session, pc, attempt, idea_arg, market_arg, plan_arg,
                   web_research, result, raised, log, env>>

BuildWebPrompt ==
    /\ pc = "builder"
    /\ Built("web_research", get_web_research_prompt(idea_arg, market_arg))

\* plan_arg stands for the web research data here
BuildPlanPrompt ==
    /\ pc = "builder"
    /\ Built("execution_plan",
             get_execution_planning_prompt(idea_arg, market_arg, plan_arg))

BuildStrategyPrompt ==
    /\ pc = "builder"
    /\ Built("strategic_analysis",
             get_strategic_analysis_prompt(idea_arg, market_arg, plan_arg))

\* the dashboard chat context over stored results that hold the two reports
BuildChatContext ==
    /\ pc = "builder"
    /\ Built("chat",
             chat_context(idea_arg,
                          MarketSuccess(idea_arg, Completion(market_arg)),
                          PlanSuccess(idea_arg, market_arg,
                                      WebSuccess(Completion(EmptyText)),
                                      Completion(plan_arg)),
                          None))

BuildCliPrompt ==
    /\ pc = "builder"
    /\ Built("cli_chat", build_prompt(market_arg, plan_arg, EmptyText, Question))

NextBuilders ==
    \/ BuildWebPrompt
    \/ BuildPlanPrompt
    \/ BuildStrategyPrompt
    \/ BuildChatContext
    \/ BuildCliPrompt

SpecBuilders == InitBuilders /\ [][NextBuilders]_vars

----------------------------------------------------------------------------
(* Concurrent sessions: each session's generate handler runs one stage call
   (run_market_research, run_execution_plan up to its web research, or
   run_strategic_analysis) in its own asyncio.run, on a researcher object it
   has just constructed *)

\* the stage functions that wrap their backend call in a retry loop
RetryStages == {"market_research", "web_research", "strategic_analysis"}
AllStages   == RetryStages \cup {"execution_plan"}

\* how many sessions run a stage call at the same time
MaxRuns == 2
Runs == 1..MaxRuns

SessionKeys == <<"gsk_1", "gsk_2", "gsk_3", "gsk_4">>
IdeaChars   == <<"a", "b", "c", "d">>

\* the key after `or` in every `api_key or "gsk_..."`
DefaultKey == "gsk_js"

\* `st.session_state.api_key or "gsk_..."`
EffectiveKey(k) == IF k = "" THEN DefaultKey ELSE k

\* the idea typed in session r
RunIdea(r) == Rep(IdeaChars[r], MinIdeaLen + 1)

\* self.model / self.compound_model of the stage's class
ModelOf(st) ==
    IF st = "strategic_analysis" THEN "openai/gpt-oss-120b" ELSE "groq/compound"

\* every run_* constructs its own researcher, whose client is shared by all
\* sessions here
ClientOfShared(r) == 1

\* the client object the stage call of session r sends with: the one of the
\* researcher that its run_* function constructs
ClientOf(r) == r

\* a sleep that holds the whole process, as time.sleep in a shared thread
SuspendedByAll(q) == Runs

\* the runs that the backoff sleep of run q suspends: `await asyncio.sleep`
\* suspends the awaiting coroutine, in the event loop of its own asyncio.run
SuspendedBy(q) == {q}

\* no other run's backoff sleep holds run r
Awake(r) ==
    \A q \in Runs \ {r} : runs[q].pc = "sleep" => r \notin SuspendedBy(q)

\* a backoff that gives up when cancellation has been requested
AfterBackoffCancellable(run) ==
    IF run.cancel THEN "returned"
    ELSE IF LoopContinues(run.attempt) THEN "call" ELSE "returned"

\* where a stage call goes after its backoff sleep: the next iteration, or
\* the end of the loop; nothing reads a cancellation request
AfterBackoff(run) == IF LoopContinues(run.attempt) THEN "call" ELSE "returned"

\* the request of one backend call; after_cancel says that a cancellation
\* request was pending when the run last passed the top of its stage or a
\* backoff
Request(run, key) ==
    [api_key |-> key, model |-> ModelOf(run.stage), idea |-> run.idea,
     attempt |-> run.attempt, after_cancel |-> run.passed_cancelled]

StageSuccess(st, idea, c) ==
    IF st = "market_research" THEN MarketSuccess(idea, c)
    ELSE IF st = "web_research" THEN WebSuccess(c)
    ELSE StrategySuccess(idea, Report, Report, c)

StageRateLimited(st, idea, e) ==
    IF st = "market_research" THEN MarketRateLimited(e)
    ELSE IF st = "web_research" THEN WebRateLimited(e)
    ELSE StrategyRateLimited(idea, e)

StageFailed(st, idea, e) ==
    IF st = "market_research" THEN MarketFailed(e)
    ELSE IF st = "web_research" THEN WebFailed(e)
    ELSE StrategyFailed(idea, e)

\* the stage function that the handler of session r calls
RunStage(r) ==
    IF r % 3 = 1 THEN "market_research"
    ELSE IF r % 3 = 2 THEN "web_research" ELSE "strategic_analysis"

\* session 1 has no key typed in the sidebar, the others have their own
RunSessionKey(r) == IF r = 1 THEN "" ELSE SessionKeys[r]

RunOutcomes == {"ok", RateLimitError} \cup FatalErrors

InitRuns ==
    /\ user_idea = EmptyText
    /\ market_research = None
    /\ execution_plan = None
    /\ strategic_analysis = None
    /\ current_step = 1
    /\ processing = FALSE
    /\ chat_history = [items |-> <<>>]
    /\ pc = "runs"
    /\ stage = "none"
    /\ attempt = 0
    /\ idea_arg = EmptyText
    /\ market_arg = EmptyText
    /\ plan_arg = EmptyText
    /\ prompt = None
    /\ web_research = None
    /\ result = None
    /\ raised = FALSE
    /\ log = <<>>
    /\ typed = {EmptyText, IdeaA}
    /\ runs = [r \in Runs |->
                 [pc |-> "idle", stage |-> RunStage(r), idea |-> RunIdea(r),
                  session_key |-> RunSessionKey(r), client_key |-> "",
                  attempt |-> 0, cancel |-> FALSE, passed_cancelled |-> FALSE,
                  sent |-> None, result |-> None, stored |-> None]]

\* somebody asks for the run of session r to be cancelled
RequestCancel(r) ==
    /\ runs[r].pc # "done"
    /\ ~runs[r].cancel
    /\ runs' = [runs EXCEPT ![r].cancel = TRUE]
    /\ UNCHANGED <<session, frame, log, typed>>

\* the generate handler of session r up to the first backend call: the
\* researcher is constructed with the session's key (run_execution_plan also
\* assigns the key on its client), the loop is entered
RunStart(r) ==
    /\ runs[r].pc = "idle"
    /\ Awake(r)
    /\ LET key == EffectiveKey(runs[r].session_key)
           constructed == [runs EXCEPT ![ClientOf(r)].client_key = key]
       IN  runs' = [constructed EXCEPT
                      ![r].pc = "call",
                      ![r].attempt = 0,
                      ![r].passed_cancelled = runs[r].cancel]
    /\ UNCHANGED <<session, frame, log, typed>>

\* one iteration of the retry loop in session r
RunCall(r) ==
    /\ runs[r].pc = "call"
    /\ Awake(r)
    /\ \E o \in RunOutcomes :
        LET run  == runs[r]
            sent == [run EXCEPT
                       !.sent = Request(run, runs[ClientOf(r)].client_key)]
        IN  runs' = [runs EXCEPT ![r] =
              IF o = "ok"
                THEN [sent EXCEPT !.pc = "returned",
                        !.result = StageSuccess(run.stage, run.idea,
                                                Completion(Report))]
              ELSE IF ExceptClause(o) = "RateLimitError"
                THEN IF AttemptsRemain(run.attempt)
                       THEN [sent EXCEPT !.pc = "sleep"]
                       ELSE [sent EXCEPT !.pc = "returned",
                               !.result = StageRateLimited(run.stage, run.idea, o)]
                ELSE [sent EXCEPT !.pc = "returned",
                        !.result = StageFailed(run.stage, run.idea, o)]]
    /\ UNCHANGED <<session, frame, log, typed>>

\* the backoff sleep of session r completes
RunSleep(r) ==
    /\ runs[r].pc = "sleep"
    /\ Awake(r)
    /\ LET run == runs[r]
       IN  runs' = [runs EXCEPT ![r] =
              [run EXCEPT
                 !.passed_cancelled = run.cancel,
                 !.pc = AfterBackoff(run),
                 !.attempt = IF AfterBackoff(run) = "call" THEN run.attempt + 1
                             ELSE run.attempt,
                 !.result = IF AfterBackoff(run) = "call" THEN run.result
                            ELSE AfterLoop(run.stage)]]
    /\ UNCHANGED <<session, frame, log, typed>>

\* the handler of session r stores the result in its own session state
RunFinish(r) ==
    /\ runs[r].pc = "returned"
    /\ Awake(r)
    /\ runs' = [runs EXCEPT
                  ![r].pc = "done",
                  ![r].stored = IF Ok(runs[r].result) THEN runs[r].result
                                ELSE runs[r].stored]
    /\ UNCHANGED <<session, frame, log, typed>>

NextRuns ==
    \E r \in Runs :
        \/ RequestCancel(r)
        \/ RunStart(r)
        \/ RunCall(r)
        \/ RunSleep(r)
        \/ RunFinish(r)

SpecRuns == InitRuns /\ [][NextRuns]_vars
----------------------------------------------------------------------------
(* Properties of the retry loop *)

CallIdx(st)  == {i \in DOMAIN log : log[i].ev = "call" /\ log[i].stage = st}
SleepIdx(st) == {i \in DOMAIN log : log[i].ev = "sleep" /\ log[i].stage = st}

\* the stage function st has returned a result that carries the error marker
ReturnedFailure(st) ==
    IF st = "web_research"
      THEN "error" \in DOMAIN web_research
      ELSE pc = "returned" /\ ~raised /\ "error" \in DOMAIN result

\* the last backend call of the running handler
LastCall == log[Len(log)]

\* C1: one invocation of a retry-wrapped stage function makes at most 3
\* backend calls, whatever the backend answers.
C1_AtMostThreeCalls ==
    \A st \in RetryStages : Cardinality(CallIdx(st)) <= 3

C1_Witness ==
    /\ pc = "returned"
    /\ stage \in RetryStages
    /\ Cardinality(CallIdx(stage)) = 3

\* C2: a fatal error is never retried: it is the last thing the stage call
\* does (no backoff, no further call), the stage call returns a failure, and a
\* fatal error on the first attempt leaves exactly one attempt.
C2_FatalNeverRetried ==
    \A i \in DOMAIN log :
        (log[i].ev = "call" /\ log[i].exc \in FatalErrors) =>
            /\ \A j \in DOMAIN log : j > i => log[j].stage # log[i].stage
            /\ log[i].stage = stage => pc = "returned"
            /\ ReturnedFailure(log[i].stage)
            /\ log[i].attempt = 0 => Cardinality(CallIdx(log[i].stage)) = 1

C2_Witness ==
    /\ pc = "returned"
    /\ Len(log) = 1
    /\ LastCall.exc \in FatalErrors
    /\ LastCall.stage \in RetryStages
    /\ ReturnedFailure(stage)

\* C3 as stated: a transient error with attempts remaining is followed by a
\* backoff and another attempt instead of a returned failure.
C3_TransientRetried ==
    \A i \in DOMAIN log :
        (/\ log[i].ev = "call"
         /\ log[i].exc \in TransientErrors
         /\ log[i].stage \in RetryStages
         /\ log[i].attempt < 3 - 1) =>
            \/ i = Len(log) /\ pc = "sleep"
            \/ i < Len(log) /\ log[i + 1].ev = "sleep"

\* C3 amended: a transient error is not retried: whatever the attempt, it is
\* the last thing the stage call does and the stage call returns a failure.
C3_TransientNotRetried ==
    \A i \in DOMAIN log :
        (log[i].ev = "call" /\ log[i].exc \in TransientErrors) =>
            /\ \A j \in DOMAIN log : j > i => log[j].stage # log[i].stage
            /\ log[i].stage = stage => pc = "returned"
            /\ ReturnedFailure(log[i].stage)

C3_Witness ==
    /\ pc = "returned"
    /\ Len(log) = 1
    /\ LastCall.exc \in TransientErrors
    /\ LastCall.stage \in RetryStages
    /\ LastCall.attempt = 0
    /\ "error" \in DOMAIN (IF stage = "web_research" THEN web_research ELSE result)

\* a rate-limited call of a retry-wrapped stage that is not the last allowed one
RateLimitedEarly(i) ==
    /\ log[i].ev = "call"
    /\ log[i].stage \in RetryStages
    /\ log[i].exc = RateLimitError
    /\ log[i].attempt < 3 - 1

\* C4: every rate-limited attempt but the last allowed one is followed by
\* exactly one 61-second backoff and then by the next attempt; every backoff
\* follows such an attempt (none after a success or the final failure); a
\* stage that succeeds on its n-th attempt has waited n - 1 times.
C4_BackoffBetweenAttempts ==
    /\ \A i \in DOMAIN log : RateLimitedEarly(i) =>
          \/ i = Len(log) /\ pc = "sleep"
          \/ /\ i < Len(log)
             /\ log[i + 1].ev = "sleep"
             /\ log[i + 1].secs = 61
             /\ \/ /\ i + 1 = Len(log)
                   /\ pc = "call"
                   /\ stage = log[i].stage
                   /\ attempt = log[i].attempt + 1
                \/ /\ i + 1 < Len(log)
                   /\ log[i + 2].ev = "call"
                   /\ log[i + 2].stage = log[i].stage
                   /\ log[i + 2].attempt = log[i].attempt + 1
    /\ \A i \in DOMAIN log : log[i].ev = "sleep" => i > 1 /\ RateLimitedEarly(i - 1)
    /\ \A i \in DOMAIN log :
          (log[i].ev = "call" /\ log[i].stage \in RetryStages /\ log[i].outcome = "ok") =>
              /\ Cardinality(SleepIdx(log[i].stage)) = log[i].attempt
              /\ Cardinality(CallIdx(log[i].stage)) = log[i].attempt + 1
              /\ ~ReturnedFailure(log[i].stage)

C4_Witness ==
    /\ pc = "returned"
    /\ stage \in RetryStages
    /\ LastCall.outcome = "ok"
    /\ LastCall.attempt = 2
    /\ Cardinality(SleepIdx(stage)) = 2
    /\ ~ReturnedFailure(stage)

\* C5 as stated: a rate-limited planning call is retried after a backoff,
\* so it is never the call on which the stage reports its failure while fewer
\* than 3 planning calls have been made.
C5_PlanningCallRetried ==
    ~(/\ pc = "returned"
      /\ stage = "execution_plan"
      /\ LastCall.exc = RateLimitError
      /\ Cardinality(CallIdx("execution_plan")) < 3
      /\ ReturnedFailure("execution_plan"))

\* C5 amended: the planning call is made at most once per execution-plan run
\* and is never followed by a backoff; a rate-limited (or otherwise failed)
\* planning call makes the stage report a failure at once.  The 3-attempt
\* retry wraps the other three calls only.
C5_PlanningCallOnce ==
    /\ Cardinality(CallIdx("execution_plan")) <= 1
    /\ SleepIdx("execution_plan") = {}
    /\ \A i \in CallIdx("execution_plan") :
          /\ i = Len(log)
          /\ pc = "returned"
          /\ log[i].outcome = "raise" => ReturnedFailure("execution_plan")

C5_Witness ==
    /\ pc = "returned"
    /\ stage = "execution_plan"
    /\ LastCall.exc = RateLimitError
    /\ Cardinality(CallIdx("execution_plan")) = 1
    /\ "error" \in DOMAIN result

\* the prompt the builder of stage st gives for the arguments of the running
\* stage function
BuiltPrompt(st) ==
    IF st = "market_research" THEN get_universal_market_research_prompt(idea_arg)
    ELSE IF st = "web_research" THEN get_web_research_prompt(idea_arg, market_arg)
    ELSE IF st = "execution_plan"
      THEN get_execution_planning_prompt(idea_arg, market_arg,
               Get(web_research, "research_data", EmptyText))
    ELSE get_strategic_analysis_prompt(idea_arg, market_arg, plan_arg)

\* C6: all attempts of one stage call send the same messages; the user message
\* is the prompt that was built before the first attempt, and that prompt is
\* still what the builder gives for the stage's inputs (they have not changed).
C6_SamePromptEveryAttempt ==
    /\ \A i, j \in DOMAIN log :
          (log[i].ev = "call" /\ log[j].ev = "call" /\ log[i].stage = log[j].stage)
              => log[i].messages = log[j].messages
    /\ \A i \in CallIdx(stage) :
          /\ log[i].messages[2].role = "user"
          /\ log[i].messages[2].content = prompt
          /\ prompt = BuiltPrompt(stage)

C6_Witness ==
    /\ pc = "returned"
    /\ Cardinality(CallIdx(stage)) = 3
    /\ LastCall.outcome = "ok"

\* C7: a stage function that has made a backend call returns a result to its
\* caller, whatever the outcome of the call: no exception leaves it, the
\* result is a dict, and the dict carries the error marker exactly when the
\* last call failed.
C7_StageFailureNeverRaises ==
    (pc = "returned" /\ Len(log) > 0) =>
        /\ ~raised
        /\ LastCall.stage = stage
        /\ LET r == IF stage = "web_research" THEN web_research ELSE result
           IN  /\ r # None
               /\ ("error" \in DOMAIN r) <=> (LastCall.outcome = "raise")

C7_Witness ==
    /\ pc = "returned"
    /\ Len(log) > 0
    /\ LastCall.exc \in FatalErrors \cup TransientErrors
    /\ LastCall.attempt > 0
    /\ ~raised
    /\ "error" \in DOMAIN result

StageNo(st) ==
    IF st = "market_research" THEN 1 ELSE IF st = "execution_plan" THEN 2 ELSE 3
Entry(k) ==
    IF k = 1 THEN market_research ELSE IF k = 2 THEN execution_plan
    ELSE strategic_analysis

\* the failure result of a stage that used up its attempts
Exhausted(st, r) ==
    /\ "error" \in DOMAIN r
    /\ \/ st = "market_research" /\ "details" \in DOMAIN r
       \/ st = "execution_plan"
       \/ st = "strategic_analysis"
            /\ r.error[1] = "Strategic analysis failed after multiple retries"

\* C8 as stated: once the handler of a required stage k has finished with a
\* failure after exhausting its attempts, the session holds successful entries
\* for the stages before k, a failure entry for k, no entry for the stages
\* after k, and no later stage can be started.
C8_RequiredFailureRecorded ==
    (pc = "rerun" /\ Exhausted(stage, result)) =>
        LET k == StageNo(stage)
        IN  /\ \A j \in 1..(k - 1) : Ok(Entry(j))
            /\ Entry(k) # None /\ "error" \in DOMAIN Entry(k)
            /\ \A j \in (k + 1)..3 : Entry(j) = None
            /\ ~Ok(Entry(k))   \* the guard of the next stage's button is false

\* C9: a failed web research does not stop the execution-plan stage: the step
\* after it builds the planning prompt and goes to the planning call; when
\* that call succeeds the stage result is a success, and the handler stores it.
C9_WebFailureContinues ==
    /\ [][(pc = "returned" /\ stage = "web_research"
              /\ "error" \in DOMAIN web_research)
            => (pc' = "call" /\ stage' = "execution_plan" /\ prompt' # None)]_vars
    /\ []((pc = "returned" /\ stage = "execution_plan"
              /\ "error" \in DOMAIN web_research /\ ~raised)
            => /\ CallIdx("execution_plan") # {}
               /\ LastCall.outcome = "ok" => Ok(result))
    /\ []((pc = "rerun" /\ stage = "execution_plan" /\ Ok(result))
            => execution_plan = result)

C9_Witness ==
    /\ pc = "rerun"
    /\ stage = "execution_plan"
    /\ Ok(result)
    /\ result.web_research_summary = NotAvailable
    /\ execution_plan = result

\* C10 as stated: after a failed web research the web findings section of the
\* planning prompt is the empty text.
C10_FailedWebContributesEmpty ==
    (stage = "execution_plan" /\ pc = "call" /\ "error" \in DOMAIN web_research)
        => prompt.web_findings = EmptyText

\* C10 amended: after a failed web research the web findings section of the
\* planning prompt is the placeholder text "Not available.", whatever the
\* failure was.
C10_FailedWebContributesPlaceholder ==
    (stage = "execution_plan" /\ pc = "call" /\ "error" \in DOMAIN web_research)
        => prompt.web_findings = NotAvailable

C10_Witness ==
    /\ stage = "execution_plan"
    /\ pc = "call"
    /\ "error" \in DOMAIN web_research
    /\ "details" \notin DOMAIN web_research
    /\ prompt.web_findings = NotAvailable

\* the stages for which the dict r carries the failure marker a caller can
\* test ('error' in r); a result dict has no other place for a failure
FailureEntries(st, r) ==
    IF r # None /\ "error" \in DOMAIN r THEN {st} ELSE {}

\* C11 as stated: every stage failure is recorded where the caller can detect
\* it: after the handler of a failed stage has finished, the session entry of
\* that stage is a failure entry, and an execution-plan result produced after
\* a failed web research carries a failure entry for web_research.
C11_EveryFailureRecorded ==
    /\ (pc = "rerun" /\ "error" \in DOMAIN result)
          => stage \in FailureEntries(stage, Entry(StageNo(stage)))
    /\ (pc = "returned" /\ stage = "execution_plan" /\ ~raised
            /\ "error" \in DOMAIN web_research /\ Ok(result))
          => \E f \in DOMAIN result :
                f \in {"error", "web_research_error", "warnings"}

\* every backend call the running handler has made succeeded on its first
\* attempt
AllCallsSucceedAtOnce ==
    \A i \in DOMAIN log :
        /\ log[i].ev = "call"
        /\ log[i].outcome = "ok"
        /\ log[i].attempt = 0

\* C12 as stated: when every backend call succeeds on its first attempt, each
\* stage of a run started with an accepted idea returns a success after one
\* call per backend stage with no backoff, after the earlier stages, and the
\* handler stores that success as the stage's entry.
C12_HappyPathFillsEveryStage ==
    /\ (pc = "returned" /\ stage # "web_research" /\ AllCallsSucceedAtOnce) =>
          /\ ~raised
          /\ Ok(result)
          /\ Cardinality(CallIdx(stage)) = 1
          /\ \A j \in 1..(StageNo(stage) - 1) : Ok(Entry(j))
    /\ (pc = "rerun" /\ Ok(result)) => Entry(StageNo(stage)) = result

\* the session entry of stage k in the next state
EntryNext(k) ==
    IF k = 1 THEN market_research' ELSE IF k = 2 THEN execution_plan'
    ELSE strategic_analysis'

\* the step is the Reset All button: the start of a new run
IsReset ==
    /\ pc = "idle"
    /\ market_research' = None
    /\ execution_plan' = None
    /\ strategic_analysis' = None

\* C13 as stated: a stored successful entry does not change in any step
\* other than the start of a new run.
C13_SuccessfulEntryImmutable ==
    [][\A k \in 1..3 :
          (Ok(Entry(k)) /\ ~IsReset) => EntryNext(k) = Entry(k)]_vars

\* C13 amended: a stored successful entry changes in two kinds of step only:
\* Reset All, and the handler of that same stage finishing with a success,
\* which replaces the entry by the new result; every other step (another
\* stage's handler, a failed re-trigger, a chat question, an edit of the
\* idea) leaves it as it was.
C13_EntryChangesOnlyByOwnSuccess ==
    [][\A k \in 1..3 :
          (Ok(Entry(k)) /\ EntryNext(k) # Entry(k)) =>
              \/ IsReset
              \/ /\ pc = "returned"
                 /\ stage # "web_research"
                 /\ StageNo(stage) = k
                 /\ ~raised
                 /\ Ok(result)
                 /\ EntryNext(k) = result]_vars

\* a re-triggered market research has replaced the entry the stored plan was
\* made from
C13_Witness ==
    /\ pc = "rerun"
    /\ stage = "market_research"
    /\ Ok(result)
    /\ market_research = result
    /\ Ok(execution_plan)
    /\ execution_plan.market_report # result.market_research_analysis
    /\ chat_history # None
    /\ Len(chat_history.items) > 0

\* the idea is empty after trimming
IsBlank(s) == Strip(s) = EmptyText

\* C14 as stated: no backend request is sent for an idea that is empty or
\* whitespace-only: every backend call of a stage carries an idea that is
\* not empty after trimming.
C14_BlankIdeaNeverSent ==
    \A i \in DOMAIN log :
        log[i].ev = "call" => ~IsBlank(log[i].messages[2].content.user_idea)

\* what truncation to a budget of n characters should give: the text itself
\* when it has at most n characters, its first n characters otherwise
FirstChars(s, n) == IF Len(s) <= n THEN s ELSE [i \in 1..n |-> s[i]]

\* a text without its last k characters
DropLast(s, k) == SubSeq(s, 1, Len(s) - k)

\* C15: truncation in the prompt builders: a report of at most N characters
\* is included unchanged, a longer one contributes exactly its first N
\* characters (N = 1500 and 2000 in the execution-plan builders, 2500 in the
\* strategic-analysis builder; the web-research builder writes "..." after
\* the report), and truncating the included text again changes nothing.
C15_TruncationFirstNIdempotent ==
    /\ stage = "web_research" =>
          /\ DropLast(prompt.market_context, Len(Ellipsis))
                = FirstChars(market_arg, WebMarketBudget)
          /\ Slice(DropLast(prompt.market_context, Len(Ellipsis)), WebMarketBudget)
                = DropLast(prompt.market_context, Len(Ellipsis))
    /\ stage = "execution_plan" =>
          /\ prompt.market_context = FirstChars(market_arg, PlanMarketBudget)
          /\ prompt.web_findings = FirstChars(plan_arg, PlanWebBudget)
          /\ Slice(prompt.market_context, PlanMarketBudget) = prompt.market_context
          /\ Slice(prompt.web_findings, PlanWebBudget) = prompt.web_findings
    /\ stage = "strategic_analysis" =>
          /\ prompt.market_context = FirstChars(market_arg, StrategyBudget)
          /\ prompt.plan_context = FirstChars(plan_arg, StrategyBudget)
          /\ Slice(prompt.market_context, StrategyBudget) = prompt.market_context
          /\ Slice(prompt.plan_context, StrategyBudget) = prompt.plan_context

\* a report one character over the budget has been cut, next to one of
\* exactly the budget that was left whole
C15_Witness ==
    /\ stage = "execution_plan"
    /\ Len(market_arg) = PlanMarketBudget + 1
    /\ Len(prompt.market_context) = PlanMarketBudget
    /\ Len(plan_arg) = PlanWebBudget
    /\ prompt.web_findings = plan_arg

\* C16 as stated: every report included in a composed prompt is cut to the
\* budget of its section: 1500 and 2000 characters in the web-research and
\* planning prompts, 2500 in the strategic-analysis prompt, 3000 per report
\* in the chat context, however long the report is.
C16_EveryIncludedReportBounded ==
    /\ stage = "web_research" =>
          Len(prompt.market_context) - Len(Ellipsis) <= WebMarketBudget
    /\ stage = "execution_plan" =>
          /\ Len(prompt.market_context) <= PlanMarketBudget
          /\ Len(prompt.web_findings) <= PlanWebBudget
    /\ stage = "strategic_analysis" =>
          /\ Len(prompt.market_context) <= StrategyBudget
          /\ Len(prompt.plan_context) <= StrategyBudget
    /\ stage = "chat" =>
          /\ Len(prompt.market_research) - Len(LiteralSlice) <= ChatBudget
          /\ Len(prompt.execution_plan) - Len(LiteralSlice) <= ChatBudget
    /\ stage = "cli_chat" =>
          /\ Len(prompt.market_research) <= ChatBudget
          /\ Len(prompt.execution_plan) <= ChatBudget

\* the report text of a stage's success result
ResultText(st, r) ==
    IF st = "market_research" THEN r.market_research_analysis
    ELSE IF st = "execution_plan" THEN r.execution_plan
    ELSE r.strategic_analysis

\* C17: an empty response text is a success: the stage function returns a
\* result without the error marker whose report is the empty string, and the
\* handler stores it as the stage's entry and moves the workflow step on.
C17_EmptyResponseIsSuccess ==
    /\ (pc = "returned" /\ ~raised /\ Len(log) > 0
            /\ LastCall.outcome = "ok" /\ LastCall.content = EmptyText) =>
          IF stage = "web_research"
            THEN Ok(web_research) /\ web_research.research_data = EmptyText
            ELSE Ok(result) /\ ResultText(stage, result) = EmptyText
    /\ (pc = "rerun" /\ Ok(result) /\ ResultText(stage, result) = EmptyText) =>
          /\ Entry(StageNo(stage)) = result
          /\ current_step >= StepOf(stage)

C17_Witness ==
    /\ pc = "rerun"
    /\ stage = "market_research"
    /\ Ok(result)
    /\ result.market_research_analysis = EmptyText
    /\ market_research = result
    /\ current_step = 2

\* the result a stage function has just returned
Returned == IF stage = "web_research" THEN web_research ELSE result

\* a stage function has just returned after a backend call that succeeded
ReturnedSuccess ==
    /\ pc = "returned"
    /\ ~raised
    /\ Len(log) > 0
    /\ LastCall.outcome = "ok"

\* the completion timestamp of a result, under whichever key the stage uses
HasTimestamp(r) ==
    \E key \in {"analysis_timestamp", "timestamp", "generation_timestamp"} :
        key \in DOMAIN r

HasTokens(r) ==
    "analysis_metadata" \in DOMAIN r
        /\ "total_tokens" \in DOMAIN r.analysis_metadata

\* the result says how many attempts were used
HasAttempts(r) ==
    \/ "attempts_made" \in DOMAIN r
    \/ "analysis_metadata" \in DOMAIN r
          /\ "attempts_made" \in DOMAIN r.analysis_metadata

\* C18 as stated: the result of every successful stage carries the completion
\* timestamp, the total token count the backend reported, and the number of
\* attempts used (3 after a success on the third attempt, 1 after a success
\* at once).
C18_SuccessMetadataHasAttempts ==
    ReturnedSuccess =>
        /\ HasTimestamp(Returned)
        /\ HasTokens(Returned)
        /\ HasAttempts(Returned)
        /\ Get(Returned, "attempts_made", 0) = LastCall.attempt + 1

\* C18 amended: the result of every successful stage carries a completion
\* timestamp; the market research and strategic analysis results also carry
\* the total token count the backend reported; the web research and
\* execution plan results carry no token count; and no result says how many
\* attempts were used, after a success on the third attempt as after a
\* success at once.
C18_SuccessMetadataTimestampTokens ==
    ReturnedSuccess =>
        /\ HasTimestamp(Returned)
        /\ stage \in {"market_research", "strategic_analysis"} =>
              /\ HasTokens(Returned)
              /\ Returned.analysis_metadata.total_tokens
                    = Completion(LastCall.content).total_tokens
        /\ stage \in {"web_research", "execution_plan"} => ~HasTokens(Returned)
        /\ ~HasAttempts(Returned)

C18_Witness ==
    /\ ReturnedSuccess
    /\ stage = "market_research"
    /\ LastCall.attempt = 2
    /\ HasTimestamp(result)
    /\ HasTokens(result)
    /\ ~HasAttempts(result)

\* C19 as stated: with a previous output that is absent or the empty string,
\* a downstream stage function builds its prompt and goes to its backend
\* call: it never waits for other input and never raises.
C19_EmptyPriorOutputProceeds ==
    (stage \in {"web_research", "execution_plan", "strategic_analysis"}
        /\ pc # "rerun") =>
            /\ pc \in {"call", "sleep", "returned"}
            /\ pc = "call" => prompt # None
            /\ ~raised

\* the running handler has entered the stage function of st
InStage(st) ==
    /\ stage = st
    /\ pc \in {"call", "sleep", "returned", "input_market", "input_plan"}

\* C20: the session is filled in declaration order: a stored strategic
\* analysis comes with a stored successful execution plan, a stored execution
\* plan with a stored successful market research, and a stage function runs
\* (and makes its backend calls) only while every earlier stage has a
\* successful stored result.
C20_StagesInDeclarationOrder ==
    /\ strategic_analysis # None => Ok(execution_plan)
    /\ execution_plan # None => Ok(market_research)
    /\ (InStage("web_research") \/ InStage("execution_plan"))
          => Ok(market_research)
    /\ InStage("strategic_analysis")
          => Ok(market_research) /\ Ok(execution_plan)
    /\ \A i \in DOMAIN log :
          log[i].ev = "call" =>
              \A j \in 1..(StageNo(IF log[i].stage = "web_research"
                                     THEN "execution_plan"
                                     ELSE log[i].stage) - 1) : Ok(Entry(j))

C20_Witness ==
    /\ pc = "returned"
    /\ stage = "strategic_analysis"
    /\ Len(log) > 0
    /\ LastCall.outcome = "ok"
    /\ Ok(market_research)
    /\ Ok(execution_plan)
    /\ strategic_analysis = None

C22_CancellationStopsCalls ==
    \A r \in Runs : runs[r].sent # None => ~runs[r].sent.after_cancel

\* C22 amended: a run has no cancellation: nothing reads a cancellation
\* request, so a run with a request pending enters its stage call and goes
\* from each backoff to its next backend call exactly as without one.
C22_CancellationNeverChecked ==
    [][\A r \in Runs :
          runs[r].cancel =>
              /\ (runs[r].pc = "idle" /\ runs'[r].pc # "idle")
                    => runs'[r].pc = "call"
              /\ (runs[r].pc = "sleep" /\ runs'[r].pc # "sleep")
                    => /\ runs'[r].pc = "call"
                       /\ runs'[r].attempt = runs[r].attempt + 1]_vars

\* the third backend call of a run, sent after a backoff that it passed with
\* a cancellation pending
C22_Witness ==
    \E r \in Runs :
        /\ runs[r].pc = "returned"
        /\ runs[r].sent # None
        /\ runs[r].sent.after_cancel
        /\ runs[r].sent.attempt = max_retries - 1

\* what the requests and the stored result of session r are, as far as they
\* depend on the session: fixed by the session's own idea, key and stage
OwnInputsOnly(r) ==
    /\ runs[r].sent # None =>
          /\ runs[r].sent.api_key = EffectiveKey(RunSessionKey(r))
          /\ runs[r].sent.model = ModelOf(RunStage(r))
          /\ runs[r].sent.idea = RunIdea(r)
    /\ runs[r].stored # None =>
          runs[r].stored = StageSuccess(RunStage(r), RunIdea(r), Completion(Report))

\* C23: concurrent runs share no mutable state: whatever the interleaving,
\* the key, the model and the idea of each backend call of a run and the
\* result the run stores are those of its own session, and every step
\* (the construction of a client and the assignment of its key included)
\* changes the state of one run only.
C23_RunsShareNoState ==
    /\ [](\A r \in Runs : OwnInputsOnly(r))
    /\ [][\E r \in Runs : \A q \in Runs \ {r} : runs'[q] = runs[q]]_vars

\* both sessions have sent a request, each with its own key, after the other
\* one had constructed its client, and both have stored a result
C23_Witness ==
    /\ runs[1].sent # None
    /\ runs[2].sent # None
    /\ runs[1].sent.api_key = DefaultKey
    /\ runs[2].sent.api_key = SessionKeys[2]
    /\ runs[1].stored # None
    /\ runs[2].stored # None

\* C24 as stated: in every reachable dashboard state chat_history is a list.
C24_ChatHistoryIsList ==
    chat_history # None /\ "items" \in DOMAIN chat_history

\* C25 as stated: a stored execution plan was generated from the market
\* research text that is stored now, and a stored strategic analysis from
\* the market research and the execution plan that are stored now.
C25_StoredReportsConsistent ==
    /\ Ok(execution_plan) =>
          /\ Ok(market_research)
          /\ execution_plan.market_report
                = market_research.market_research_analysis
    /\ Ok(strategic_analysis) =>
          /\ Ok(market_research) /\ Ok(execution_plan)
          /\ strategic_analysis.market_report_summary
                = Summary(market_research.market_research_analysis)
          /\ strategic_analysis.execution_plan_summary
                = Summary(execution_plan.execution_plan)

\* C26 as stated: the processing flag that a generate action sets is always
\* set back: whenever no handler is running the flag is False, so the
\* generate buttons are enabled, and Reset All leaves it False.
C26_ProcessingAlwaysReset ==
    pc = "idle" => ~processing

\* C27: a retry-wrapped stage function returns a dict on every path that
\* starts in its retry loop, never None: a backoff is always followed by
\* another iteration, so the end of the loop (and the statement after it, if
\* any) is never reached.
C27_LoopAlwaysReturnsDict ==
    /\ (pc = "sleep") => attempt + 1 < max_retries
    /\ (pc = "returned" /\ ~raised /\ stage \in RetryStages) =>
          /\ Len(log) > 0
          /\ LastCall.ev = "call"
          /\ Returned # None
          /\ Returned # MarketAfterLoop
          /\ Returned # WebAfterLoop
    /\ (pc = "rerun") => result # None

\* the third attempt of analyze_strategy was rate limited and the function
\* returned its failure dict from inside the loop
C27_Witness ==
    /\ pc = "returned"
    /\ stage = "strategic_analysis"
    /\ CallIdx(stage) # {}
    /\ LastCall.attempt = max_retries - 1
    /\ LastCall.exc = RateLimitError
    /\ result # None
    /\ "error" \in DOMAIN result

\* C28: every stage call terminates: a retry-wrapped stage function whose
\* loop is under way (at a backend call or in a backoff) reaches its return,
\* and it makes at most 3 backend calls and at most 2 backoff sleeps on the
\* way, whatever the backend answers.
C28_StageCallTerminates ==
    /\ [](\A st \in RetryStages :
            /\ Cardinality(CallIdx(st)) <= max_retries
            /\ Cardinality(SleepIdx(st)) <= max_retries - 1)
    /\ \A st \in RetryStages :
          (stage = st /\ pc \in {"call", "sleep"})
              ~> (stage = st /\ pc = "returned")

\* a stage call has returned after 3 backend calls and 2 backoff sleeps
C28_Witness ==
    /\ pc = "returned"
    /\ stage \in RetryStages
    /\ Cardinality(CallIdx(stage)) = max_retries
    /\ Cardinality(SleepIdx(stage)) = max_retries - 1

\* the generate handler is about to end without a result to store: the stage
\* function returned a dict with an error marker, or an exception left it
GenerateFailed ==
    /\ pc = "returned"
    /\ stage # "web_research"
    /\ raised \/ "error" \in DOMAIN result

\* C29: current_step is always in 1..5 and never decreases except through
\* Reset All, which sets it to 1; current_step >= 2, >= 3, >= 4 hold only
\* when a result without an error marker is stored for market research,
\* execution plan and strategic analysis respectively; a failed generate
\* action leaves current_step and the stored reports unchanged.
C29_StepTracksStoredResults ==
    /\ [](/\ current_step \in 1..5
          /\ current_step >= 2 => Ok(market_research)
          /\ current_step >= 3 => Ok(execution_plan)
          /\ current_step >= 4 => Ok(strategic_analysis))
    /\ [][\/ current_step' >= current_step
          \/ IsReset /\ current_step' = 1]_vars
    /\ [][GenerateFailed =>
             UNCHANGED <<current_step, market_research, execution_plan,
                         strategic_analysis>>]_vars

\* C29 witness: a generate action has failed in a session that had reached
\* the final step, and the step and the three reports are still there
C29_Witness ==
    /\ pc = "rerun"
    /\ "error" \in DOMAIN result
    /\ current_step = 5
    /\ Ok(market_research) /\ Ok(execution_plan) /\ Ok(strategic_analysis)

\* len(chat_history), 0 for the None that Reset All stores
ChatLen(h) == IF h = None THEN 0 ELSE Len(h.items)

\* C30 as stated: a chat question changes only the chat history. A question
\* is sent only when a market research result is stored and the question is
\* non-empty; a successful answer appends exactly one entry to chat_history,
\* a failed backend call leaves chat_history unchanged, and in both cases the
\* stored reports and current_step are unchanged.
C30_ChatChangesOnlyHistory ==
    /\ ENABLED SendChat => market_research # None /\ Truthy(Question)
    /\ \A o \in Outcomes :
          ENABLED SendChat =>
              IF o.kind = "ok"
                THEN ENABLED (/\ ChatAnswer(o)
                              /\ ChatLen(chat_history')
                                    = ChatLen(chat_history) + 1)
                ELSE ~ ENABLED (ChatAnswer(o) /\ chat_history' # chat_history)
    /\ ~ ENABLED (/\ SendChat
                  /\ <<market_research, execution_plan, strategic_analysis,
                       current_step>>'
                       # <<market_research, execution_plan,
                           strategic_analysis, current_step>>)

====
